---- MODULE Spec2Model ----
(***************************************************************************)
(* Smart Music Recommender: the candidate aggregation, filter and ranking  *)
(* core of src/app.py (recommend_songs and its helpers) and of the         *)
(* library classes of src/utils.py (SpotifyDataProcessor,                  *)
(* RecommendationEngine).                                                  *)
(*                                                                         *)
(* A Python dict is a TLA+ function whose DOMAIN is the set of keys that   *)
(* are present, so d[k] on an absent key is the KeyError of the source.    *)
(* A DataFrame is the sequence of its rows.  Audio feature values are      *)
(* integers counting halves (0.5 is 1, 1.0 is 2, 120 is 240, -10 is -20).  *)
(***************************************************************************)
EXTENDS Integers, Sequences, FiniteSets, TLC

VARIABLES pc, seed, resp, artist_tracks, related_tracks, search_tracks,
          all_tracks, failed, df, filters, result, error, arg, ret

vars == <<pc, seed, resp, artist_tracks, related_tracks, search_tracks,
          all_tracks, failed, df, filters, result, error, arg, ret>>

(***************************************************************************)
(* Bounds of the model.                                                    *)
(***************************************************************************)
\* catalog track ids
MaxId == 3
\* tracks in one top-tracks or search response
MaxTracks == 2
\* related artists in one response
MaxArtists == 2
\* top tracks of one related artist
MaxArtistTracks == 1
\* rows of a pool handed to the filter stage
MaxPool == 2
\* largest number of recommendations asked for
MaxRecommendations == 2

Ids == 1..MaxId

(***************************************************************************)
(* Program constants.                                                      *)
(***************************************************************************)
ArtistLimit == 15
RelatedLimit == 25
RelatedArtists == 5
TracksPerArtist == 4

Min(a, b) == IF a <= b THEN a ELSE b

Take(s, n) == SubSeq(s, 1, Min(n, Len(s)))

\* all sequences over S of length at most n
SeqUpTo(S, n) == UNION {[1..k -> S] : k \in 0..n}

(***************************************************************************)
(* The catalog collaborator.  A track object is a dict; an entry that      *)
(* lacks a key models a malformed record.                                  *)
(***************************************************************************)
RequiredKeys == {"id", "name", "artists", "album", "preview_url",
                 "popularity", "duration_ms", "external_urls"}

AlbumKeys == {"name", "images", "release_date"}

FeatureKeys == {"danceability", "energy", "valence", "tempo", "acousticness",
                "liveness", "instrumentalness", "loudness", "speechiness",
                "key", "mode"}

\* A release date string is the sequence of its numeric parts: <<1999>> is
\* "1999", <<1999, 5>> is "1999-05", <<1999, 5, 1>> is "1999-05-01".  <<>> is
\* the empty string and <<0>> is "0000", which is no date.
CatalogDate(i) ==
    CASE i % 3 = 1 -> <<2000>>
      [] i % 3 = 2 -> <<0>>
      [] OTHER     -> <<2010, 5, 1>>

CatalogPopularity(i) == IF i % 2 = 1 THEN 50 ELSE 80

RawTrack(i) ==
    [id            |-> i,
     name          |-> "name",
     artists       |-> <<[id |-> i, name |-> "artist"]>>,
     album         |-> [name |-> "album", images |-> <<>>,
                        release_date |-> CatalogDate(i)],
     preview_url   |-> "None",
     popularity    |-> CatalogPopularity(i),
     duration_ms   |-> 1000 * i,
     external_urls |-> [spotify |-> "url"]]

Without(d, k) == [x \in DOMAIN d \ {k} |-> d[x]]

\* What a response holds: item i > 0 is the track object of id i, item 0 is a
\* track object of id 2 that lacks its name.
Items == Ids \cup {0}

Entry(item) == IF item = 0 THEN Without(RawTrack(2), "name") ELSE RawTrack(item)

\* sp.audio_features([id]): raises, returns an empty list, returns [None], or
\* returns [d] for a dict d.
RaiseResponse == [kind |-> "raise"]

\* Feature values the lookup can return: none of them is the default of its
\* key.
AudioValue(k) ==
    CASE k = "tempo"    -> 360
      [] k = "loudness" -> -10
      [] k = "key"      -> 7
      [] k = "mode"     -> 0
      [] OTHER          -> 2

AudioDict(keys) == [k \in keys |-> AudioValue(k)]

\* The tracks of the catalog differ in energy and valence only: every other
\* feature has the value 0.5, 120, -10, 0 or 1 of its key.
CatalogFeatures(energy, valence) ==
    [danceability |-> 1, energy |-> energy, valence |-> valence, tempo |-> 240,
     acousticness |-> 1, liveness |-> 1, instrumentalness |-> 1,
     loudness |-> -20, speechiness |-> 1, key |-> 0, mode |-> 2]

CatalogAudio(i) ==
    CASE i % 4 = 1 -> [kind |-> "dict", d |-> CatalogFeatures(2, 1)]
      [] i % 4 = 2 -> [kind |-> "dict", d |-> CatalogFeatures(2, 2)]
      [] i % 4 = 3 -> RaiseResponse
      [] OTHER     -> [kind |-> "dict", d |-> CatalogFeatures(1, 2)]

(***************************************************************************)
(* Track record normalizer of app.py.                                      *)
(***************************************************************************)
EmptyDict == [k \in {} |-> 0]

Truthy(d) == DOMAIN d # {}

\* dict.get(k, default)
Get(d, k, default) == IF k \in DOMAIN d THEN d[k] ELSE default

\* get_audio_features: the dict of the first entry, {} when the lookup raises,
\* returns no entry, or returns a null or empty first entry.
AppAudioFeatures(af) == IF af.kind = "dict" /\ Truthy(af.d) THEN af.d ELSE EmptyDict

\* The track object subscripts of get_track_details; any absent key is a
\* KeyError inside its try block.
TrackKeysPresent(track) ==
    /\ RequiredKeys \subseteq DOMAIN track
    /\ AlbumKeys \subseteq DOMAIN track.album
    /\ "spotify" \in DOMAIN track.external_urls

TrackMetadata(track) ==
    [id           |-> track.id,
     name         |-> track.name,
     artist       |-> [n \in DOMAIN track.artists |-> track.artists[n].name],
     album        |-> track.album.name,
     image_url    |-> IF track.album.images # <<>>
                      THEN track.album.images[1].url ELSE "None",
     preview_url  |-> track.preview_url,
     popularity   |-> track.popularity,
     release_date |-> track.album.release_date,
     duration_ms  |-> track.duration_ms,
     external_url |-> track.external_urls.spotify]

NoDetails == [error |-> "Error"]

GetTrackDetails(track, af) ==
    IF ~TrackKeysPresent(track) THEN NoDetails
    ELSE LET audio_features == AppAudioFeatures(af)
             details == TrackMetadata(track) @@
                        [artist_ids |-> [n \in DOMAIN track.artists |-> track.artists[n].id]]
             features ==
                 [danceability     |-> Get(audio_features, "danceability", 1),
                  energy           |-> Get(audio_features, "energy", 1),
                  valence          |-> Get(audio_features, "valence", 1),
                  tempo            |-> Get(audio_features, "tempo", 240),
                  acousticness     |-> Get(audio_features, "acousticness", 1),
                  liveness         |-> Get(audio_features, "liveness", 1),
                  instrumentalness |-> Get(audio_features, "instrumentalness", 1),
                  loudness         |-> Get(audio_features, "loudness", -20),
                  speechiness      |-> Get(audio_features, "speechiness", 1),
                  key              |-> Get(audio_features, "key", 0),
                  mode             |-> Get(audio_features, "mode", 2)]
         IN  [details |-> features @@ details, error |-> "None"]

\* "if track_details and not error"
Kept(r) == r.error = "None" /\ Truthy(r.details)

(***************************************************************************)
(* Track record normalizer of utils.py (SpotifyDataProcessor).             *)
(***************************************************************************)
\* get_audio_features: "None" when the lookup raises or returns no entry,
\* else the first entry ("None" for a null entry).
ProcessorAudioFeatures(af) ==
    IF af.kind = "dict" THEN [none |-> FALSE, d |-> af.d] ELSE [none |-> TRUE]

\* extract_track_info: the info dict, or "None" (here the empty dict wrapped
\* as [none |-> TRUE]) when anything raised.
ExtractTrackInfo(track, af) ==
    IF ~TrackKeysPresent(track) THEN [none |-> TRUE]
    ELSE LET audio_features == ProcessorAudioFeatures(af)
             info == TrackMetadata(track)
         IN  IF audio_features.none \/ ~Truthy(audio_features.d)
             THEN [none |-> FALSE, info |-> info]
             ELSE IF ~(FeatureKeys \subseteq DOMAIN audio_features.d)
                  THEN [none |-> TRUE]
                  ELSE [none |-> FALSE,
                        info |-> [k \in FeatureKeys |-> audio_features.d[k]] @@ info]

(***************************************************************************)
(* Retrieval strategies of app.py.  A response of the catalog is           *)
(* [kind |-> "raise"] or [kind |-> "ok", ...]; the audio feature lookup of *)
(* a track is the catalog's, by the track's id.                            *)
(***************************************************************************)
TrackResponses(n) ==
    {RaiseResponse} \cup {[kind |-> "ok", tracks |-> t] : t \in SeqUpTo(Items, n)}

RelatedResponses ==
    {RaiseResponse} \cup
    {[kind |-> "ok", artists |-> a] :
        a \in SeqUpTo(TrackResponses(MaxArtistTracks), MaxArtists)}

Normalize(item) == GetTrackDetails(Entry(item), CatalogAudio(Entry(item).id))

\* A loop that gives up at the first record that does not normalize.
RECURSIVE NormalizeLoopAbort(_, _, _)
NormalizeLoopAbort(tracks, tracks_data, limit) ==
    IF tracks = <<>> THEN tracks_data
    ELSE LET r == Normalize(Head(tracks))
         IN  IF Kept(r)
             THEN NormalizeLoopAbort(Tail(tracks), Append(tracks_data, r.details), limit)
             ELSE <<>>

\* "for track in ...: track_details, error = get_track_details(sp, track);
\*  if track_details and not error: tracks_data.append(track_details)",
\* with the early exit of get_related_artists_tracks at `limit` rows
\* (limit < 0: no early exit).
RECURSIVE NormalizeLoop(_, _, _)
NormalizeLoop(tracks, tracks_data, limit) ==
    IF tracks = <<>> THEN tracks_data
    ELSE LET r == Normalize(Head(tracks))
         IN  IF Kept(r)
             THEN LET appended == Append(tracks_data, r.details)
                  IN  IF limit >= 0 /\ Len(appended) >= limit THEN appended
                      ELSE NormalizeLoop(Tail(tracks), appended, limit)
             ELSE NormalizeLoop(Tail(tracks), tracks_data, limit)

\* get_artist_top_tracks: (DataFrame, error)
GetArtistTopTracks(r, limit) ==
    IF r.kind = "raise" THEN [frame |-> <<>>, error |-> "Error"]
    ELSE [frame |-> NormalizeLoop(Take(r.tracks, limit), <<>>, -1), error |-> "None"]

\* A loop that keeps what it has collected when a fetch raises.
RECURSIVE RelatedLoopKeepPartial(_, _, _)
RelatedLoopKeepPartial(artists, tracks_data, limit) ==
    IF artists = <<>> THEN [frame |-> tracks_data, error |-> "None"]
    ELSE LET top_tracks == Head(artists)
         IN  IF top_tracks.kind = "raise" THEN [frame |-> tracks_data, error |-> "Error"]
             ELSE LET collected == NormalizeLoop(Take(top_tracks.tracks, TracksPerArtist),
                                                 tracks_data, limit)
                  IN  IF Len(collected) >= limit
                      THEN [frame |-> collected, error |-> "None"]
                      ELSE RelatedLoopKeepPartial(Tail(artists), collected, limit)

\* "for artist in related['artists'][:5]: top_tracks = sp.artist_top_tracks(...)
\*  for track in top_tracks['tracks'][:4]: ..." inside the try block of
\* get_related_artists_tracks: a fetch that raises ends in its except clause.
RECURSIVE RelatedLoop(_, _, _)
RelatedLoop(artists, tracks_data, limit) ==
    IF artists = <<>> THEN [frame |-> tracks_data, error |-> "None"]
    ELSE LET top_tracks == Head(artists)
         IN  IF top_tracks.kind = "raise" THEN [frame |-> <<>>, error |-> "Error"]
             ELSE LET collected == NormalizeLoop(Take(top_tracks.tracks, TracksPerArtist),
                                                 tracks_data, limit)
                  IN  IF Len(collected) >= limit
                      THEN [frame |-> collected, error |-> "None"]
                      ELSE RelatedLoop(Tail(artists), collected, limit)

\* get_related_artists_tracks: (DataFrame, error)
GetRelatedArtistsTracks(r, limit) ==
    IF r.kind = "raise" THEN [frame |-> <<>>, error |-> "Error"]
    ELSE RelatedLoop(Take(r.artists, RelatedArtists), <<>>, limit)

\* Strategy 3 of recommend_songs: the rows of the search, [] when it raised.
SearchTracks(r) ==
    IF r.kind = "raise" THEN <<>> ELSE NormalizeLoop(r.tracks, <<>>, -1)

\* `via` is a history field: the strategy that fetched the row.  No operation
\* of the program reads it.
Tag(frame, strategy) == [n \in DOMAIN frame |-> frame[n] @@ [via |-> strategy]]

(***************************************************************************)
(* Aggregation of recommend_songs.                                         *)
(***************************************************************************)
\* pd.concat(all_tracks, ignore_index=True)
RECURSIVE Concat(_)
Concat(frames) == IF frames = <<>> THEN <<>> ELSE Head(frames) \o Concat(Tail(frames))

\* The seed row left in.
RemoveSeedNot(frame, seed_id) == frame

\* df[df['id'] != seed_track_details['id']]
RemoveSeed(frame, seed_id) == SelectSeq(frame, LAMBDA row : row.id # seed_id)

\* keep='last' instead of keep='first'
RECURSIVE DropDuplicatesKeepLast(_)
DropDuplicatesKeepLast(frame) ==
    IF frame = <<>> THEN <<>>
    ELSE LET back  == DropDuplicatesKeepLast(Tail(frame))
             first == Head(frame)
         IN  IF \E n \in DOMAIN back : back[n].id = first.id
             THEN back ELSE <<first>> \o back

\* df.drop_duplicates(subset=['id']): a row stays unless an earlier row has
\* its id.
RECURSIVE DropDuplicates(_)
DropDuplicates(frame) ==
    IF frame = <<>> THEN <<>>
    ELSE LET front == DropDuplicates(SubSeq(frame, 1, Len(frame) - 1))
             last  == frame[Len(frame)]
         IN  IF \E n \in DOMAIN front : front[n].id = last.id
             THEN front ELSE Append(front, last)

\* Aggregation without drop_duplicates.
AggregateNoDedup(frames, seed_id) == RemoveSeed(Concat(frames), seed_id)

Aggregate(frames, seed_id) == DropDuplicates(RemoveSeed(Concat(frames), seed_id))

(***************************************************************************)
(* Filter stage.  pd.to_datetime of one release date string: a year, NaT   *)
(* for the empty string, or no date at all (a Timestamp has a year        *)
(* between 1678 and 2261).  Each row is parsed on its own.                 *)
(***************************************************************************)
ToDatetime(date) ==
    IF date = <<>> THEN [kind |-> "NaT"]
    ELSE IF /\ Len(date) <= 3
            /\ date[1] \in 1678..2261
            /\ (Len(date) >= 2 => date[2] \in 1..12)
            /\ (Len(date) = 3 => date[3] \in 1..28)
         THEN [kind |-> "date", year |-> date[1]]
         ELSE [kind |-> "unparseable"]

InRange(v, range) == v >= range[1] /\ v <= range[2]

FilterPopularity(frame, range) ==
    SelectSeq(frame, LAMBDA row : InRange(row.popularity, range))

\* df.dropna(subset=['year']): NaT has no year.
DropNaYear(frame) ==
    SelectSeq(frame, LAMBDA row : ToDatetime(row.release_date).kind = "date")

\* df[(df['year'] >= lo) & (df['year'] <= hi)]: the year of NaT is NaN, and a
\* comparison with NaN is False.
FilterYear(frame, range) ==
    SelectSeq(frame, LAMBDA row :
        LET t == ToDatetime(row.release_date)
        IN  t.kind = "date" /\ InRange(t.year, range))

\* RecommendationEngine.apply_filters on a frame with the rows `frame`; None
\* is <<>>.  A frame without columns (pd.DataFrame()) has no 'popularity' and
\* no 'release_date' to subscript, and pd.to_datetime raises on a string that
\* is no date.
UtilsApplyFilters(frame, has_columns, popularity_range, year_range) ==
    LET Raised == [raised |-> TRUE]
        by_popularity == IF popularity_range # <<>>
                         THEN FilterPopularity(frame, popularity_range)
                         ELSE frame
    IN  IF popularity_range # <<>> /\ ~has_columns THEN Raised
        ELSE IF year_range = <<>> THEN [raised |-> FALSE, rows |-> by_popularity]
        ELSE IF ~has_columns THEN Raised
        ELSE IF \E n \in DOMAIN by_popularity :
                   ToDatetime(by_popularity[n].release_date).kind = "unparseable"
             THEN Raised
             ELSE [raised |-> FALSE, rows |-> FilterYear(by_popularity, year_range)]

\* recommend_songs, "Apply filters".  errors='coerce' turns an unparseable
\* date into NaT.
AppFilter(frame, f) ==
    IF ~Truthy(f) THEN frame
    ELSE LET by_popularity == IF "popularity_range" \in DOMAIN f
                              THEN FilterPopularity(frame, f.popularity_range)
                              ELSE frame
         IN  IF "year_range" \in DOMAIN f
             THEN FilterYear(DropNaYear(by_popularity), f.year_range)
             ELSE by_popularity

(***************************************************************************)
(* Similarity ranking.  StandardScaler and cosine_similarity in exact      *)
(* rational arithmetic.  With k fitted rows, column sum S and              *)
(* V = k * (sum of squares) - S * S, the standardized value of x is        *)
(* (k*x - S) / sqrt(V), and (k*x - S) / k when V = 0 (the scaler divides   *)
(* a column without variance by 1).  A column in which k*x - S is 0 for    *)
(* every row at hand adds 0 to every product, and is left out of the       *)
(* common denominator.                                                     *)
(***************************************************************************)
FeatureCols == <<"danceability", "energy", "valence", "tempo", "acousticness",
                 "liveness", "instrumentalness", "loudness", "speechiness">>

RECURSIVE Sigma(_, _)
Sigma(f, n) == IF n = 0 THEN 0 ELSE f[n] + Sigma(f, n - 1)

RECURSIVE Product(_, _)
Product(f, S) ==
    IF S = {} THEN 1 ELSE LET c == CHOOSE c \in S : TRUE IN f[c] * Product(f, S \ {c})

\* scaler.fit(rows)
Fit(rows) ==
    [k   |-> Len(rows),
     sum |-> [c \in DOMAIN FeatureCols |->
                 Sigma([n \in DOMAIN rows |-> rows[n][FeatureCols[c]]], Len(rows))],
     var |-> [c \in DOMAIN FeatureCols |->
                 Len(rows) * Sigma([n \in DOMAIN rows |->
                                       rows[n][FeatureCols[c]] * rows[n][FeatureCols[c]]],
                                   Len(rows))
                 - Sigma([n \in DOMAIN rows |-> rows[n][FeatureCols[c]]], Len(rows))
                   * Sigma([n \in DOMAIN rows |-> rows[n][FeatureCols[c]]], Len(rows))]]

Centered(fit, row, c) == fit.k * row[FeatureCols[c]] - fit.sum[c]

Denominator(fit, c) == IF fit.var[c] > 0 THEN fit.var[c] ELSE fit.k * fit.k

ActiveCols(fit, rows) ==
    {c \in DOMAIN FeatureCols : \E n \in DOMAIN rows : Centered(fit, rows[n], c) # 0}

\* the dot product of the standardized rows x and y, times the product of the
\* denominators of the columns `active`
Dot(fit, x, y, active) ==
    LET den == [c \in DOMAIN FeatureCols |-> Denominator(fit, c)]
    IN  Sigma([c \in DOMAIN FeatureCols |->
                  IF c \in active
                  THEN Centered(fit, x, c) * Centered(fit, y, c) * Product(den, active \ {c})
                  ELSE 0],
              Len(FeatureCols))

\* cosine_similarity(seed, row) is num / sqrt(seed * self), and 0 when a row
\* is all zero.
Cosine(fit, seed_row, row, active) ==
    [num  |-> Dot(fit, seed_row, row, active),
     self |-> Dot(fit, row, row, active),
     seed |-> Dot(fit, seed_row, seed_row, active)]

Sign(s) == IF s.seed = 0 \/ s.self = 0 \/ s.num = 0 THEN 0 ELSE IF s.num > 0 THEN 1 ELSE -1

\* s < t for two similarities to the same seed row
Less(s, t) ==
    IF Sign(s) # Sign(t) THEN Sign(s) < Sign(t)
    ELSE IF Sign(s) = 0 THEN FALSE
    ELSE IF Sign(s) > 0 THEN s.num * s.num * t.self < t.num * t.num * s.self
    ELSE s.num * s.num * t.self > t.num * t.num * s.self

\* keep='last': of the rows of equal similarity the last one first.
RECURSIVE NLargestKeepLast(_, _)
NLargestKeepLast(frame, n) ==
    IF n <= 0 \/ frame = <<>> THEN <<>>
    ELSE LET first == CHOOSE i \in DOMAIN frame :
                          /\ \A j \in DOMAIN frame : ~Less(frame[i].similarity, frame[j].similarity)
                          /\ \A j \in (i + 1)..Len(frame) : Less(frame[j].similarity, frame[i].similarity)
             rest  == [j \in 1..(Len(frame) - 1) |->
                          IF j < first THEN frame[j] ELSE frame[j + 1]]
         IN  <<frame[first]>> \o NLargestKeepLast(rest, n - 1)

\* df.nlargest(n, 'similarity'): the n rows of largest similarity, largest
\* first, rows of equal similarity in their order in df.
RECURSIVE NLargest(_, _)
NLargest(frame, n) ==
    IF n <= 0 \/ frame = <<>> THEN <<>>
    ELSE LET first == CHOOSE i \in DOMAIN frame :
                          /\ \A j \in DOMAIN frame : ~Less(frame[i].similarity, frame[j].similarity)
                          /\ \A j \in 1..(i - 1) : Less(frame[j].similarity, frame[i].similarity)
             rest  == [j \in 1..(Len(frame) - 1) |->
                          IF j < first THEN frame[j] ELSE frame[j + 1]]
         IN  <<frame[first]>> \o NLargest(rest, n - 1)

\* recommend_songs, "Calculate similarity": NaN and an absent seed feature are
\* 0.5; the scaler is fitted on the candidate rows and then applied to the
\* seed row.
AppSimilarity(frame, seed_track_details) ==
    LET Vector(row) == [k \in {FeatureCols[c] : c \in DOMAIN FeatureCols} |->
                           Get(row, k, 1)]
        df_features   == [n \in DOMAIN frame |-> Vector(frame[n])]
        seed_features == Vector(seed_track_details)
        fit           == Fit(df_features)
        active        == ActiveCols(fit, df_features \o <<seed_features>>)
    IN  [n \in DOMAIN frame |->
            [similarity |-> Cosine(fit, seed_features, df_features[n], active)]
            @@ frame[n]]

AppRank(frame, seed_row, num_recommendations) ==
    NLargest(AppSimilarity(frame, seed_row), Min(num_recommendations, Len(frame)))
(***************************************************************************)
(* RecommendationEngine of utils.py.  The columns of a frame are the keys  *)
(* of its rows; a row without a key of another row holds NaN there.        *)
(***************************************************************************)
Columns(frame) == UNION {DOMAIN frame[n] : n \in DOMAIN frame}

\* calculate_similarity: the scaler is fitted on the seed row stacked on the
\* candidate rows, NaN and an absent seed feature being 0.  A feature column
\* that the frame lacks is a KeyError, caught: the frame comes back without a
\* similarity column.
CalculateSimilarity(seed_features, frame) ==
    IF \E c \in DOMAIN FeatureCols : FeatureCols[c] \notin Columns(frame) THEN frame
    ELSE LET Vector(row) == [k \in {FeatureCols[c] : c \in DOMAIN FeatureCols} |->
                                Get(row, k, 0)]
             seed_vector  == Vector(seed_features)
             all_features == <<seed_vector>> \o [n \in DOMAIN frame |-> Vector(frame[n])]
             fit          == Fit(all_features)
             active       == ActiveCols(fit, all_features)
         IN  [n \in DOMAIN frame |->
                 [similarity |-> Cosine(fit, seed_vector, all_features[n + 1], active)]
                 @@ frame[n]]

\* recommend(seed_track, candidates_df, n, filters): the frame returned, or an
\* exception that leaves the method.
Recommend(seed_track, frame, has_columns, n, f) ==
    LET filtered == IF Truthy(f)
                    THEN UtilsApplyFilters(frame, has_columns,
                                           Get(f, "popularity_range", <<>>),
                                           Get(f, "year_range", <<>>))
                    ELSE [raised |-> FALSE, rows |-> frame]
    IN  IF filtered.raised THEN [raised |-> TRUE]
        ELSE IF filtered.rows = <<>> THEN [raised |-> FALSE, rows |-> <<>>]
        ELSE LET df_with_similarity == CalculateSimilarity(seed_track, filtered.rows)
             IN  IF "similarity" \notin Columns(df_with_similarity)
                 THEN [raised |-> TRUE]
                 ELSE [raised |-> FALSE, rows |-> NLargest(df_with_similarity, n)]

(***************************************************************************)
(* recommend_songs(sp, seed_track_details, num_recommendations, filters),  *)
(* one step per stage.  The seed is the record get_track_details made of a *)
(* catalog track; its track may have no artist.  The responses of the      *)
(* catalog, the filters and num_recommendations are drawn where the code   *)
(* first reads them.                                                       *)
(***************************************************************************)
SeedOf(i, has_artist) ==
    LET details == GetTrackDetails(RawTrack(i), CatalogAudio(i)).details
    IN  IF has_artist THEN details ELSE [details EXCEPT !.artist_ids = <<>>]

Seeds == {SeedOf(i, b) : i \in Ids, b \in BOOLEAN}

FilterSpecs ==
    {EmptyDict,
     [popularity_range |-> <<0, 100>>],
     [popularity_range |-> <<0, 100>>, year_range |-> <<1990, 2020>>],
     [popularity_range |-> <<50, 80>>, year_range |-> <<2000, 2010>>],
     [popularity_range |-> <<60, 100>>, year_range |-> <<1990, 2020>>]}

NoResponse == [kind |-> "none"]

Init ==
    /\ pc = "artist"
    /\ seed \in Seeds
    /\ resp = NoResponse
    /\ artist_tracks = <<>>
    /\ related_tracks = <<>>
    /\ search_tracks = <<>>
    /\ all_tracks = <<>>
    /\ failed = {}
    /\ df = <<>>
    /\ filters = EmptyDict
    /\ result = <<>>
    /\ error = "pending"
    /\ arg = <<>>
    /\ ret = <<>>

\* An empty frame that empties the list.
AppendedOrReset(frames, frame) == IF frame = <<>> THEN <<>> ELSE Append(frames, frame)

\* all_tracks.append(frame) unless frame.empty
Appended(frames, frame) == IF frame = <<>> THEN frames ELSE Append(frames, frame)

\* Strategy 1: the seed artist's top tracks
ArtistStrategy ==
    /\ pc = "artist"
    /\ pc' = "related"
    /\ IF seed.artist_ids # <<>>
       THEN \E r \in TrackResponses(MaxTracks) :
               LET got == GetArtistTopTracks(r, ArtistLimit)
               IN  /\ resp' = r
                   /\ artist_tracks' = Tag(got.frame, "artist")
                   /\ all_tracks' = Appended(all_tracks, Tag(got.frame, "artist"))
                   /\ failed' = IF got.error # "None" THEN failed \cup {"artist"} ELSE failed
       ELSE UNCHANGED <<resp, artist_tracks, all_tracks, failed>>
    /\ UNCHANGED <<seed, related_tracks, search_tracks, df, filters, result, error, arg, ret>>

\* Strategy 2: top tracks of the related artists
RelatedStrategy ==
    /\ pc = "related"
    /\ pc' = "search"
    /\ IF seed.artist_ids # <<>>
       THEN \E r \in RelatedResponses :
               LET got == GetRelatedArtistsTracks(r, RelatedLimit)
               IN  /\ resp' = r
                   /\ related_tracks' = Tag(got.frame, "related")
                   /\ all_tracks' = Appended(all_tracks, Tag(got.frame, "related"))
                   /\ failed' = IF got.error # "None" THEN failed \cup {"related"} ELSE failed
       ELSE UNCHANGED <<resp, related_tracks, all_tracks, failed>>
    /\ UNCHANGED <<seed, artist_tracks, search_tracks, df, filters, result, error, arg, ret>>

\* Strategy 3: free-text search, inside its own try block
SearchStrategy ==
    /\ pc = "search"
    /\ pc' = "merge"
    /\ \E r \in TrackResponses(MaxTracks) :
          /\ resp' = r
          /\ search_tracks' = Tag(SearchTracks(r), "search")
          /\ all_tracks' = Appended(all_tracks, Tag(SearchTracks(r), "search"))
          /\ failed' = IF r.kind = "raise" THEN failed \cup {"search"} ELSE failed
    /\ UNCHANGED <<seed, artist_tracks, related_tracks, df, filters, result, error, arg, ret>>

\* "if not all_tracks" ... "if df.empty"
Merge ==
    /\ pc = "merge"
    /\ IF all_tracks = <<>>
       THEN /\ pc' = "done"
            /\ error' = "Could not find recommendations"
            /\ UNCHANGED df
       ELSE /\ df' = Aggregate(all_tracks, seed.id)
            /\ IF df' = <<>>
               THEN pc' = "done" /\ error' = "No recommendations found"
               ELSE pc' = "filter" /\ UNCHANGED error
    /\ result' = <<>>
    /\ UNCHANGED <<seed, resp, artist_tracks, related_tracks, search_tracks,
                   all_tracks, failed, filters, arg, ret>>

\* "Apply filters" ... "if df.empty"
Filter ==
    /\ pc = "filter"
    /\ \E f \in FilterSpecs :
          /\ filters' = f
          /\ df' = AppFilter(df, f)
    /\ IF df' = <<>>
       THEN pc' = "done" /\ error' = "No songs match the filters"
       ELSE pc' = "rank" /\ UNCHANGED error
    /\ UNCHANGED <<seed, resp, artist_tracks, related_tracks, search_tracks,
                   all_tracks, failed, result, arg, ret>>

\* "Calculate similarity" ... "return recommendations, None"
Rank ==
    /\ pc = "rank"
    /\ \E num_recommendations \in 1..MaxRecommendations :
          result' = AppRank(df, seed, num_recommendations)
    /\ pc' = "done"
    /\ error' = "None"
    /\ UNCHANGED <<seed, resp, artist_tracks, related_tracks, search_tracks,
                   all_tracks, failed, df, filters, arg, ret>>

Next ==
    \/ ArtistStrategy
    \/ RelatedStrategy
    \/ SearchStrategy
    \/ Merge
    \/ Filter
    \/ Rank

Spec == Init /\ [][Next]_vars
(***************************************************************************)
(* Properties of the aggregation (specification Spec).                     *)
(***************************************************************************)
Strategies == {"artist", "related", "search"}

\* the rows of the three strategies in the declared order
Merged == artist_tracks \o related_tracks \o search_tracks

IdsOf(frame) == [n \in DOMAIN frame |-> frame[n].id]

\* df is the aggregated pool, not yet filtered
Aggregated == pc = "filter" \/ (pc = "done" /\ error = "No recommendations found")

NoCandidatesFound == {"Could not find recommendations", "No recommendations found"}

\* C1: the pool of recommend_songs never holds a row with the seed's id, and
\* never two rows with the same id.
C1_PoolWithoutSeedAndDuplicates ==
    /\ \A n \in DOMAIN df : df[n].id # seed.id
    /\ \A m, n \in DOMAIN df : m # n => df[m].id # df[n].id

C1_Witness ==
    /\ pc = "filter"
    /\ \E n \in DOMAIN Merged : Merged[n].id = seed.id
    /\ \E m, n \in DOMAIN Merged : m # n /\ Merged[m].id = Merged[n].id /\ Merged[m].id # seed.id
    /\ failed # {}

FirstIndex(frame, id) ==
    CHOOSE n \in DOMAIN frame :
        frame[n].id = id /\ \A m \in 1..(n - 1) : frame[m].id # id

\* C2: every row of the aggregated pool is the first row with its id in the
\* order artist-catalog, related-artist, text-search, and the rows of the pool
\* are in the order of those first rows.
C2_FirstOccurrenceWins ==
    Aggregated =>
        /\ \A n \in DOMAIN df :
              /\ \E m \in DOMAIN Merged : Merged[m].id = df[n].id
              /\ df[n] = Merged[FirstIndex(Merged, df[n].id)]
        /\ \A m, n \in DOMAIN df :
              m < n => FirstIndex(Merged, df[m].id) < FirstIndex(Merged, df[n].id)

C2_Witness ==
    /\ pc = "filter"
    /\ Len(df) >= 2
    /\ \E m, n \in DOMAIN Merged :
          /\ m < n
          /\ Merged[m].id = Merged[n].id
          /\ Merged[m].via # Merged[n].via
          /\ Merged[m].id = df[2].id

FrameOf(strategy) ==
    CASE strategy = "artist"  -> artist_tracks
      [] strategy = "related" -> related_tracks
      [] OTHER                -> search_tracks

\* C3: whatever strategies failed, all three strategies have run when the pool
\* is built, and the pool has a row for every id a strategy that did not fail
\* returned, the seed's id aside.
C3_FailuresSwallowed ==
    (pc = "filter" \/ (pc = "done" /\ error \in NoCandidatesFound)) =>
        /\ \A s \in failed : FrameOf(s) = <<>>
        /\ \A s \in Strategies \ failed : \A n \in DOMAIN FrameOf(s) :
              FrameOf(s)[n].id # seed.id =>
                  \E m \in DOMAIN df : df[m].id = FrameOf(s)[n].id
        /\ resp.kind = "ok" =>
              \A n \in DOMAIN resp.tracks :
                  (resp.tracks[n] \in Ids /\ resp.tracks[n] # seed.id) =>
                      \E m \in DOMAIN df : df[m].id = resp.tracks[n]

C3_Witness ==
    /\ pc = "filter"
    /\ failed = {"related"}
    /\ artist_tracks # <<>>
    /\ search_tracks # <<>>
    /\ \E m, n \in DOMAIN df : df[m].via = "artist" /\ df[n].via = "search"

\* C4: recommend_songs ends with a NoCandidatesFound reason and an empty
\* result exactly when the strategies together returned no row other than
\* rows of the seed; in particular when all three failed or returned nothing.
C4_NoCandidatesFound ==
    pc = "done" =>
        LET nothing == \A n \in DOMAIN Merged : Merged[n].id = seed.id
        IN  /\ nothing <=> error \in NoCandidatesFound
            /\ nothing => result = <<>>
            /\ Merged = <<>> <=> error = "Could not find recommendations"

C4_Witness ==
    /\ pc = "done"
    /\ failed = Strategies
    /\ error \in NoCandidatesFound
    /\ result = <<>>

WellFormed(item) == TrackKeysPresent(Entry(item))

\* the rows of a strategy are those of the well-formed items, in order
RowsOf(items, frame) ==
    LET good == SelectSeq(items, WellFormed)
    IN  /\ Len(frame) = Len(good)
        /\ \A n \in DOMAIN frame :
              /\ frame[n].id = Entry(good[n]).id
              /\ frame[n].popularity = Entry(good[n]).popularity

RECURSIVE ArtistItems(_)
ArtistItems(artists) ==
    IF artists = <<>> THEN <<>> ELSE Head(artists).tracks \o ArtistItems(Tail(artists))

\* C5: a record that fails to normalize is dropped alone: each strategy that
\* got its responses returns the rows of all the well-formed records of the
\* responses, in order.
C5_BadRecordDroppedAlone ==
    /\ (pc = "related" /\ resp.kind = "ok") => RowsOf(resp.tracks, artist_tracks)
    /\ (pc = "search" /\ resp.kind = "ok"
           /\ \A n \in DOMAIN resp.artists : resp.artists[n].kind = "ok")
          => RowsOf(ArtistItems(resp.artists), related_tracks)
    /\ (pc = "merge" /\ resp.kind = "ok") => RowsOf(resp.tracks, search_tracks)

C5_Witness ==
    /\ pc = "related"
    /\ resp.kind = "ok"
    /\ Len(resp.tracks) = 2
    /\ ~WellFormed(resp.tracks[1])
    /\ WellFormed(resp.tracks[2])
    /\ Len(artist_tracks) = 1
(***************************************************************************)
(* The normalizers as functions (specification SpecNormalize): one call of *)
(* get_track_details or of extract_track_info on a track object and the    *)
(* outcome of its audio feature lookup.                                    *)
(***************************************************************************)
Idle ==
    /\ seed = SeedOf(1, TRUE)
    /\ resp = NoResponse
    /\ artist_tracks = <<>>
    /\ related_tracks = <<>>
    /\ search_tracks = <<>>
    /\ all_tracks = <<>>
    /\ failed = {}
    /\ df = <<>>
    /\ filters = EmptyDict
    /\ result = <<>>
    /\ error = "pending"

pipeline == <<seed, resp, artist_tracks, related_tracks, search_tracks,
              all_tracks, failed, df, filters, result, error>>

TrackObjects ==
    {RawTrack(1), Without(RawTrack(1), "id"), Without(RawTrack(1), "name"),
     [RawTrack(1) EXCEPT !.album = Without(RawTrack(1).album, "release_date")]}

AudioLookups ==
    {RaiseResponse, [kind |-> "empty"], [kind |-> "null"]} \cup
    {[kind |-> "dict", d |-> AudioDict(keys)] : keys \in SUBSET FeatureKeys}

InitNormalize ==
    /\ Idle
    /\ pc = "call"
    /\ arg \in [track : TrackObjects, af : AudioLookups]
    /\ ret = <<>>

CallGetTrackDetails ==
    /\ pc = "call"
    /\ pc' = "returned"
    /\ LET r == GetTrackDetails(arg.track, arg.af)
       IN  ret' = IF Kept(r)
                  THEN [fn |-> "get_track_details", none |-> FALSE, record |-> r.details]
                  ELSE [fn |-> "get_track_details", none |-> TRUE]
    /\ UNCHANGED <<pipeline, arg>>

CallExtractTrackInfo ==
    /\ pc = "call"
    /\ pc' = "returned"
    /\ LET r == ExtractTrackInfo(arg.track, arg.af)
       IN  ret' = IF r.none
                  THEN [fn |-> "extract_track_info", none |-> TRUE]
                  ELSE [fn |-> "extract_track_info", none |-> FALSE, record |-> r.info]
    /\ UNCHANGED <<pipeline, arg>>

NextNormalize ==
    \/ CallGetTrackDetails
    \/ CallExtractTrackInfo

SpecNormalize == InitNormalize /\ [][NextNormalize]_vars

\* the defaults of section 3 of the specification, in halves
DocumentedDefault ==
    [danceability |-> 1, energy |-> 1, valence |-> 1, tempo |-> 240,
     acousticness |-> 1, liveness |-> 1, instrumentalness |-> 1,
     loudness |-> -20, speechiness |-> 1, key |-> 0, mode |-> 2]

\* the feature k as the lookup gave it, its default when the lookup gave none
ExpectedFeature(af, k) ==
    IF af.kind = "dict" /\ k \in DOMAIN af.d THEN af.d[k] ELSE DocumentedDefault[k]

FeaturesFilled(r) ==
    /\ ~r.none
    /\ \A k \in FeatureKeys :
          k \in DOMAIN r.record /\ r.record[k] = ExpectedFeature(arg.af, k)

\* C6: for a track object with all its metadata, whatever features the lookup
\* gives, a normalizer returns a record with every feature field, a missing
\* one at its documented default.
C6_MissingFeaturesDefaulted ==
    (pc = "returned" /\ TrackKeysPresent(arg.track)) => FeaturesFilled(ret)

\* What holds of the code: get_track_details does so.
C6_GetTrackDetailsDefaults ==
    (pc = "returned" /\ TrackKeysPresent(arg.track) /\ ret.fn = "get_track_details")
        => FeaturesFilled(ret)

\* extract_track_info returns a record without any feature field when the
\* lookup gives nothing, and no record when it gives some features only.
C6_ExtractTrackInfoDefaultsNothing ==
    (pc = "returned" /\ TrackKeysPresent(arg.track) /\ ret.fn = "extract_track_info") =>
        IF arg.af.kind = "dict" /\ Truthy(arg.af.d)
        THEN IF FeatureKeys \subseteq DOMAIN arg.af.d THEN FeaturesFilled(ret) ELSE ret.none
        ELSE ~ret.none /\ DOMAIN ret.record \cap FeatureKeys = {}
(***************************************************************************)
(* The filter stage as a function (specification SpecFilter): one call of  *)
(* the filter of recommend_songs or of RecommendationEngine.apply_filters  *)
(* on a pool and a filter dict.  An empty pool may be a frame without      *)
(* columns; the pool of recommend_songs always has its columns.            *)
(***************************************************************************)
FilterRows ==
    [popularity   : {29, 30, 70, 71},
     release_date : {<<1999>>, <<2000>>, <<2010, 12>>, <<2011, 1, 1>>, <<0>>, <<>>}]

PopularityRanges == {<<30, 70>>, <<70, 30>>}

YearRanges == {<<2000, 2010>>, <<2010, 2000>>}

FilterInputs ==
    {EmptyDict}
    \cup {[popularity_range |-> p] : p \in PopularityRanges}
    \cup {[year_range |-> y] : y \in YearRanges}
    \cup {[popularity_range |-> p, year_range |-> y] :
             p \in PopularityRanges, y \in YearRanges}

InitFilter ==
    /\ Idle
    /\ pc = "call"
    /\ arg \in [pool : SeqUpTo(FilterRows, MaxPool), has_columns : BOOLEAN, f : FilterInputs]
    /\ arg.pool # <<>> => arg.has_columns
    /\ ret = <<>>

CallAppFilter ==
    /\ pc = "call"
    /\ arg.has_columns
    /\ pc' = "returned"
    /\ ret' = [fn |-> "recommend_songs", raised |-> FALSE, rows |-> AppFilter(arg.pool, arg.f)]
    /\ UNCHANGED <<pipeline, arg>>

CallApplyFilters ==
    /\ pc = "call"
    /\ pc' = "returned"
    /\ ret' = [fn |-> "apply_filters"] @@
              UtilsApplyFilters(arg.pool, arg.has_columns,
                                Get(arg.f, "popularity_range", <<>>),
                                Get(arg.f, "year_range", <<>>))
    /\ UNCHANGED <<pipeline, arg>>

NextFilter ==
    \/ CallAppFilter
    \/ CallApplyFilters

SpecFilter == InitFilter /\ [][NextFilter]_vars

Parseable(row) == ToDatetime(row.release_date).kind = "date"

\* the row passes the ranges of f, both ends included
Passes(row, f) ==
    /\ "popularity_range" \in DOMAIN f =>
          /\ f.popularity_range[1] <= row.popularity
          /\ row.popularity <= f.popularity_range[2]
    /\ "year_range" \in DOMAIN f =>
          /\ Parseable(row)
          /\ f.year_range[1] <= row.release_date[1]
          /\ row.release_date[1] <= f.year_range[2]

ExpectedPool(pool, f) == SelectSeq(pool, LAMBDA row : Passes(row, f))

Inverted(f) ==
    \/ "popularity_range" \in DOMAIN f /\ f.popularity_range[1] > f.popularity_range[2]
    \/ "year_range" \in DOMAIN f /\ f.year_range[1] > f.year_range[2]

\* C7: the filter stage returns exactly the rows of the pool, in order, whose
\* popularity and release year lie in the ranges, both ends included.
C7_FilterKeepsExactlyInRange ==
    pc = "returned" => ~ret.raised /\ ret.rows = ExpectedPool(arg.pool, arg.f)

\* What holds of the code: the filter of recommend_songs does so, and
\* apply_filters does whenever it returns.
C7_InclusiveWhenReturned ==
    (pc = "returned" /\ ~ret.raised) => ret.rows = ExpectedPool(arg.pool, arg.f)

C7_AppFilterExact ==
    (pc = "returned" /\ ret.fn = "recommend_songs") =>
        ~ret.raised /\ ret.rows = ExpectedPool(arg.pool, arg.f)

\* C8: with a year range, a row whose release date cannot be parsed is
\* dropped; the filter does not fail on it and returns what it returns for the
\* pool without that row.
C8_UnparseableDropped ==
    (pc = "returned" /\ "year_range" \in DOMAIN arg.f
        /\ \E n \in DOMAIN arg.pool : ~Parseable(arg.pool[n])) =>
        /\ ~ret.raised
        /\ \A n \in DOMAIN ret.rows : Parseable(ret.rows[n])
        /\ ret.rows = ExpectedPool(SelectSeq(arg.pool, Parseable), arg.f)

C8_AppFilterDropsUnparseable ==
    (pc = "returned" /\ "year_range" \in DOMAIN arg.f /\ ret.fn = "recommend_songs"
        /\ \E n \in DOMAIN arg.pool : ~Parseable(arg.pool[n])) =>
        /\ ~ret.raised
        /\ \A n \in DOMAIN ret.rows : Parseable(ret.rows[n])
        /\ ret.rows = ExpectedPool(SelectSeq(arg.pool, Parseable), arg.f)

\* apply_filters raises exactly when a row that is no date is left after the
\* popularity filter, or the frame has no columns.
C8_ApplyFiltersRaises ==
    (pc = "returned" /\ "year_range" \in DOMAIN arg.f /\ ret.fn = "apply_filters") =>
        (ret.raised <=>
            \/ ~arg.has_columns
            \/ \E n \in DOMAIN arg.pool :
                  /\ ToDatetime(arg.pool[n].release_date).kind = "unparseable"
                  /\ Passes(arg.pool[n], Without(arg.f, "year_range")))

\* C9: a filter with min > max on a range returns the empty pool, without an
\* error, for every pool.
C9_InvertedRangeEmpty ==
    (pc = "returned" /\ Inverted(arg.f)) => ~ret.raised /\ ret.rows = <<>>

C9_AppFilterInvertedEmpty ==
    (pc = "returned" /\ Inverted(arg.f) /\ ret.fn = "recommend_songs") =>
        ~ret.raised /\ ret.rows = <<>>
(***************************************************************************)
(* RecommendationEngine.recommend as a function (specification SpecEngine):*)
(* one call on a seed, a candidate frame, n and a filter dict.  The rows   *)
(* of a frame are records of catalog tracks, all with their features (as   *)
(* get_track_details makes them) or all without (as extract_track_info     *)
(* makes them when the feature lookup fails).                              *)
(***************************************************************************)
DetailsOf(i) == GetTrackDetails(RawTrack(i), CatalogAudio(i)).details

InfoOf(i) == ExtractTrackInfo(RawTrack(i), RaiseResponse).info

EngineCalls ==
    [seed : {DetailsOf(i) : i \in Ids},
     pool : SeqUpTo({DetailsOf(i) : i \in Ids}, MaxPool)
            \cup SeqUpTo({InfoOf(i) : i \in Ids}, MaxPool),
     has_columns : BOOLEAN,
     n : 1..MaxRecommendations,
     f : FilterSpecs]

InitEngine ==
    /\ Idle
    /\ pc = "call"
    /\ arg \in EngineCalls
    /\ arg.pool # <<>> => arg.has_columns
    /\ ret = <<>>

CallRecommend ==
    /\ pc = "call"
    /\ pc' = "returned"
    /\ ret' = Recommend(arg.seed, arg.pool, arg.has_columns, arg.n, arg.f)
    /\ UNCHANGED <<pipeline, arg>>

NextEngine == CallRecommend

SpecEngine == InitEngine /\ [][NextEngine]_vars

\* the pool of the call had rows and the filters removed them all
EmptiedByFilter(call) ==
    /\ call.pool # <<>>
    /\ Truthy(call.f)
    /\ ExpectedPool(call.pool, call.f) = <<>>

\* C10: what the caller gets when the filters removed every candidate differs
\* from what it gets from any call whose pool was empty before filtering.
C10_EmptyOutcomesDistinct ==
    (pc = "returned" /\ EmptiedByFilter(arg) /\ ~ret.raised) =>
        \A other \in EngineCalls :
            other.pool = <<>> =>
                Recommend(other.seed, other.pool, other.has_columns, other.n, other.f) # ret

\* What holds of the code: recommend_songs names the two cases apart.
C10_AppReasonsDistinct ==
    pc = "done" =>
        LET nothing == \A n \in DOMAIN Merged : Merged[n].id = seed.id
        IN  /\ nothing => error \in NoCandidatesFound
            /\ (~nothing /\ df = <<>>) => error = "No songs match the filters"
            /\ error = "No songs match the filters" => ~nothing /\ df = <<>> /\ result = <<>>

C10_AppWitness ==
    pc = "done" /\ error = "No songs match the filters"
(***************************************************************************)
(* The ranking as a function (specification SpecRank): one call of the     *)
(* ranking of recommend_songs ("Calculate similarity" to the return) or of *)
(* RecommendationEngine.recommend without filters, on a seed, a pool and   *)
(* n.  A row carries its index label in the frame.  The rows of a pool are *)
(* records of catalog tracks, all with their features or all without; the  *)
(* pool recommend_songs ranks is not empty, has no row of the seed and no   *)
(* two rows of one id.                                                     *)
(***************************************************************************)
\* rows of a pool handed to the ranking
MaxRankPool == 3

RankIds == 1..(MaxId + 1)

Indexed(frame) == [n \in DOMAIN frame |-> [index |-> n] @@ frame[n]]

RankCalls ==
    [seed : {DetailsOf(i) : i \in RankIds},
     pool : {Indexed(rows) : rows \in SeqUpTo({DetailsOf(i) : i \in RankIds}, MaxRankPool)
                                     \cup SeqUpTo({InfoOf(i) : i \in RankIds}, MaxRankPool)},
     n    : 1..MaxRankPool]

InitRank ==
    /\ Idle
    /\ pc = "call"
    /\ arg \in RankCalls
    /\ ret = <<>>

\* a pool recommend_songs can be ranking
AppPool(call) ==
    /\ call.pool # <<>>
    /\ \A n \in DOMAIN call.pool :
          /\ call.pool[n].id # call.seed.id
          /\ "energy" \in DOMAIN call.pool[n]
    /\ \A m, n \in DOMAIN call.pool : m # n => call.pool[m].id # call.pool[n].id

CallAppRank ==
    /\ pc = "call"
    /\ AppPool(arg)
    /\ pc' = "returned"
    /\ ret' = [fn |-> "recommend_songs", raised |-> FALSE,
               rows |-> AppRank(arg.pool, arg.seed, arg.n)]
    /\ UNCHANGED <<pipeline, arg>>

CallEngineRank ==
    /\ pc = "call"
    /\ pc' = "returned"
    /\ ret' = [fn |-> "recommend"] @@
              Recommend(arg.seed, arg.pool, arg.pool # <<>>, arg.n, EmptyDict)
    /\ UNCHANGED <<pipeline, arg>>

NextRank ==
    \/ CallAppRank
    \/ CallEngineRank

SpecRank == InitRank /\ [][NextRank]_vars

SameSimilarity(s, t) == ~Less(s, t) /\ ~Less(t, s)

\* C11: the rows the ranking returns are in non-increasing order of
\* similarity, and two returned rows of equal similarity are in the order
\* they had in the pool.
C11_SortedAndStable ==
    (pc = "returned" /\ ~ret.raised) =>
        \A m, n \in DOMAIN ret.rows :
            m < n =>
                /\ ~Less(ret.rows[m].similarity, ret.rows[n].similarity)
                /\ SameSimilarity(ret.rows[m].similarity, ret.rows[n].similarity)
                       => ret.rows[m].index < ret.rows[n].index

\* three rows come back, not in their pool order, two of them tied
C11_Witness ==
    /\ pc = "returned"
    /\ ~ret.raised
    /\ Len(ret.rows) = 3
    /\ ret.rows[1].index > ret.rows[2].index
    /\ \E m, n \in DOMAIN ret.rows :
          /\ m < n
          /\ ret.rows[m].id # ret.rows[n].id
          /\ SameSimilarity(ret.rows[m].similarity, ret.rows[n].similarity)
    /\ Less(ret.rows[3].similarity, ret.rows[1].similarity)

\* the rows are min(n, |pool|) rows of the pool, none of them twice
TopOfPool(rows, pool, n) ==
    /\ Len(rows) = Min(n, Len(pool))
    /\ \A m \in DOMAIN rows :
          /\ rows[m].index \in DOMAIN pool
          /\ \A k \in DOMAIN pool[rows[m].index] : rows[m][k] = pool[rows[m].index][k]
    /\ \A m, k \in DOMAIN rows : m # k => rows[m].index # rows[k].index

\* C12: the ranking returns exactly min(n, |pool|) rows, each a row of the
\* pool and no row twice; with n >= |pool| every row of the pool is returned
\* once.
C12_ReturnsMinOfNAndPool ==
    pc = "returned" =>
        /\ ~ret.raised
        /\ TopOfPool(ret.rows, arg.pool, arg.n)
        /\ arg.n >= Len(arg.pool) =>
              \A i \in DOMAIN arg.pool : \E m \in DOMAIN ret.rows : ret.rows[m].index = i

\* What holds of the code: the ranking of recommend_songs does so, and
\* recommend does whenever it returns.
C12_AppRankReturnsMin ==
    (pc = "returned" /\ ret.fn = "recommend_songs") =>
        /\ ~ret.raised
        /\ TopOfPool(ret.rows, arg.pool, arg.n)
        /\ arg.n >= Len(arg.pool) =>
              \A i \in DOMAIN arg.pool : \E m \in DOMAIN ret.rows : ret.rows[m].index = i

C12_RecommendReturnsMinOrRaises ==
    (pc = "returned" /\ ret.fn = "recommend") =>
        IF arg.pool # <<>> /\ "energy" \notin DOMAIN arg.pool[1]
        THEN ret.raised
        ELSE /\ ~ret.raised
             /\ TopOfPool(ret.rows, arg.pool, arg.n)

(***************************************************************************)
(* The empty pool (specifications SpecEngine and Spec).                    *)
(***************************************************************************)
\* C13: a call whose pool has no candidate, or none left after the filters,
\* ends in the empty outcome: nothing is ranked and nothing is raised.
C13_EmptyPoolOutcome ==
    (pc = "returned" /\ (arg.pool = <<>> \/ EmptiedByFilter(arg))) =>
        ~ret.raised /\ ret.rows = <<>>

\* What holds of the code: recommend returns its empty frame for an empty
\* frame that has the columns the filters read, and raises for one without.
C13_RecommendEmptyFrame ==
    (pc = "returned" /\ arg.pool = <<>>) =>
        IF arg.has_columns \/ ~Truthy(arg.f)
        THEN ~ret.raised /\ ret.rows = <<>>
        ELSE ret.raised

\* recommend_songs never ranks an empty pool: it ends with a reason and no
\* row.
C13_AppEmptyPoolReason ==
    /\ pc = "rank" => df # <<>>
    /\ (pc = "done" /\ df = <<>>) =>
          /\ result = <<>>
          /\ error \in NoCandidatesFound \cup {"No songs match the filters"}

(***************************************************************************)
(* Mood recommendations (specification SpecMood): one call of              *)
(* get_mood_based_recommendations of app.py or of                          *)
(* MoodRecommender.get_mood_recommendations of utils.py on a label and a   *)
(* number of recommendations.  `calls` is the sequence of the calls made   *)
(* to the catalog.  The catalog answers a request for `limit` tracks with  *)
(* at most `limit` tracks.                                                 *)
(***************************************************************************)
mood_queries ==
    [happy   |-> "happy upbeat pop dance",
     chill   |-> "chill relax ambient calm",
     workout |-> "workout energy gym motivation",
     sad     |-> "sad emotional melancholy",
     party   |-> "party dance club edm"]

\* MOOD_PARAMETERS of MoodRecommender, the targets in hundredths
MOOD_PARAMETERS ==
    [happy   |-> [target_valence |-> 80, target_energy |-> 70, target_danceability |-> 70],
     chill   |-> [target_valence |-> 50, target_energy |-> 30, target_acousticness |-> 60],
     workout |-> [target_energy |-> 85, target_tempo |-> 14000, target_danceability |-> 70],
     sad     |-> [target_valence |-> 20, target_energy |-> 30, target_acousticness |-> 50],
     party   |-> [target_danceability |-> 85, target_energy |-> 80, target_valence |-> 70]]

\* the labels a caller passes: the five moods and two that are none of them
Labels == DOMAIN mood_queries \cup {"upbeat", "Happy"}

AudioCall(track, calls) ==
    IF "id" \in DOMAIN track
    THEN Append(calls, [op |-> "audio_features", id |-> track.id])
    ELSE calls

\* A loop that never stops early.
RECURSIVE MoodLoopNoBreak(_, _, _, _)
MoodLoopNoBreak(items, tracks_data, calls, num_recommendations) ==
    IF items = <<>> THEN [frame |-> tracks_data, calls |-> calls]
    ELSE LET r      == Normalize(Head(items))
             called == AudioCall(Entry(Head(items)), calls)
         IN  IF Kept(r)
             THEN MoodLoopNoBreak(Tail(items), Append(tracks_data, r.details), called,
                                  num_recommendations)
             ELSE MoodLoopNoBreak(Tail(items), tracks_data, called, num_recommendations)

\* "for track in results['tracks']['items']: ... if len(tracks_data) >=
\*  num_recommendations: break"
RECURSIVE MoodLoop(_, _, _, _)
MoodLoop(items, tracks_data, calls, num_recommendations) ==
    IF items = <<>> THEN [frame |-> tracks_data, calls |-> calls]
    ELSE LET r      == Normalize(Head(items))
             called == AudioCall(Entry(Head(items)), calls)
         IN  IF Kept(r)
             THEN LET appended == Append(tracks_data, r.details)
                  IN  IF Len(appended) >= num_recommendations
                      THEN [frame |-> appended, calls |-> called]
                      ELSE MoodLoop(Tail(items), appended, called, num_recommendations)
             ELSE MoodLoop(Tail(items), tracks_data, called, num_recommendations)

\* get_mood_based_recommendations: (DataFrame, error); r is the response to
\* the search.
GetMoodBasedRecommendations(mood, num_recommendations, r) ==
    IF mood \notin DOMAIN mood_queries
    THEN [frame |-> <<>>, error |-> "Invalid mood", calls |-> <<>>]
    ELSE LET search == [op |-> "search", q |-> mood_queries[mood],
                        limit |-> num_recommendations * 2]
         IN  IF r.kind = "raise"
             THEN [frame |-> <<>>, error |-> "Error", calls |-> <<search>>]
             ELSE [error |-> "None"] @@
                  MoodLoop(r.tracks, <<>>, <<search>>, num_recommendations)

\* "for track in recommendations['tracks']: track_info =
\*  self.data_processor.extract_track_info(track); if track_info: ..."
RECURSIVE ExtractLoop(_, _, _)
ExtractLoop(items, tracks_data, calls) ==
    IF items = <<>> THEN [frame |-> tracks_data, calls |-> calls]
    ELSE LET track  == Entry(Head(items))
             r      == ExtractTrackInfo(track, CatalogAudio(track.id))
             called == AudioCall(track, calls)
         IN  IF ~r.none /\ Truthy(r.info)
             THEN ExtractLoop(Tail(items), Append(tracks_data, r.info), called)
             ELSE ExtractLoop(Tail(items), tracks_data, called)

\* MoodRecommender.get_mood_recommendations: a DataFrame; r is the response to
\* sp.recommendations.
GetMoodRecommendations(mood, limit, r) ==
    IF mood \notin DOMAIN MOOD_PARAMETERS
    THEN [frame |-> <<>>, calls |-> <<>>]
    ELSE LET recommendations ==
                 [op          |-> "recommendations",
                  seed_genres |-> IF mood # "workout" THEN <<mood>>
                                  ELSE <<"rock", "electronic">>,
                  limit       |-> limit,
                  params      |-> MOOD_PARAMETERS[mood]]
         IN  IF r.kind = "raise"
             THEN [frame |-> <<>>, calls |-> <<recommendations>>]
             ELSE ExtractLoop(r.tracks, <<>>, <<recommendations>>)

InitMood ==
    /\ Idle
    /\ pc = "call"
    /\ arg \in [mood : Labels, n : 1..MaxRecommendations]
    /\ ret = <<>>

CallGetMoodBasedRecommendations ==
    /\ pc = "call"
    /\ pc' = "returned"
    /\ IF arg.mood \in DOMAIN mood_queries
       THEN \E r \in TrackResponses(arg.n * 2) :
               /\ resp' = r
               /\ ret' = [fn |-> "get_mood_based_recommendations"] @@
                         GetMoodBasedRecommendations(arg.mood, arg.n, r)
       ELSE /\ UNCHANGED resp
            /\ ret' = [fn |-> "get_mood_based_recommendations"] @@
                      GetMoodBasedRecommendations(arg.mood, arg.n, NoResponse)
    /\ UNCHANGED <<seed, artist_tracks, related_tracks, search_tracks, all_tracks,
                   failed, df, filters, result, error, arg>>

CallGetMoodRecommendations ==
    /\ pc = "call"
    /\ pc' = "returned"
    /\ IF arg.mood \in DOMAIN MOOD_PARAMETERS
       THEN \E r \in TrackResponses(arg.n) :
               /\ resp' = r
               /\ ret' = [fn |-> "get_mood_recommendations"] @@
                         GetMoodRecommendations(arg.mood, arg.n, r)
       ELSE /\ UNCHANGED resp
            /\ ret' = [fn |-> "get_mood_recommendations"] @@
                      GetMoodRecommendations(arg.mood, arg.n, NoResponse)
    /\ UNCHANGED <<seed, artist_tracks, related_tracks, search_tracks, all_tracks,
                   failed, df, filters, result, error, arg>>

NextMood ==
    \/ CallGetMoodBasedRecommendations
    \/ CallGetMoodRecommendations

SpecMood == InitMood /\ [][NextMood]_vars

\* what the caller gets back
Returned(r) == Without(Without(r, "calls"), "fn")

\* what the caller could get back from the same function for a mood label
OutcomesOf(fn, mood) ==
    IF fn = "get_mood_based_recommendations"
    THEN {Returned(GetMoodBasedRecommendations(mood, n, r)) :
             n \in 1..MaxRecommendations, r \in TrackResponses(MaxRecommendations * 2)}
    ELSE {Returned(GetMoodRecommendations(mood, n, r)) :
             n \in 1..MaxRecommendations, r \in TrackResponses(MaxRecommendations)}

\* C14: a call with a label that is none of the five moods makes no call to
\* the catalog and ends in the invalid-mood failure, an outcome that no call
\* with one of the five moods ends in.
C14_InvalidMoodFails ==
    (pc = "returned" /\ arg.mood \notin DOMAIN mood_queries) =>
        /\ ret.calls = <<>>
        /\ ret.frame = <<>>
        /\ \A mood \in DOMAIN mood_queries : Returned(ret) \notin OutcomesOf(ret.fn, mood)

\* What holds of the code: neither function calls the catalog for such a
\* label, and get_mood_based_recommendations returns "Invalid mood" for it and
\* for nothing else.
C14_NoCatalogCall ==
    (pc = "returned" /\ arg.mood \notin DOMAIN mood_queries) =>
        ret.calls = <<>> /\ ret.frame = <<>> /\ resp = NoResponse

C14_AppInvalidMood ==
    (pc = "returned" /\ ret.fn = "get_mood_based_recommendations") =>
        (ret.error = "Invalid mood" <=> arg.mood \notin DOMAIN mood_queries)

\* get_mood_recommendations returns for such a label the empty frame it
\* returns for a mood whose catalog call raised.
C14_UtilsInvalidMoodSilent ==
    (pc = "returned" /\ ret.fn = "get_mood_recommendations"
        /\ arg.mood \notin DOMAIN MOOD_PARAMETERS) =>
        Returned(ret) = Returned(GetMoodRecommendations("happy", arg.n, RaiseResponse))

\* C15: for one of the five moods and n, get_mood_based_recommendations makes
\* one search, for the mood's query and 2n results, and returns the first n
\* hits that normalize, in the order of the search: all of them when fewer
\* than n normalize, and never more than n.
C15_FirstNNormalizedHits ==
    (pc = "returned" /\ ret.fn = "get_mood_based_recommendations"
        /\ arg.mood \in DOMAIN mood_queries) =>
        /\ ret.calls[1] = [op |-> "search", q |-> mood_queries[arg.mood], limit |-> 2 * arg.n]
        /\ \A c \in 2..Len(ret.calls) : ret.calls[c].op # "search"
        /\ Len(ret.frame) <= arg.n
        /\ resp.kind = "ok" =>
              LET good == SelectSeq(resp.tracks, WellFormed)
              IN  /\ Len(ret.frame) = Min(arg.n, Len(good))
                  /\ \A m \in DOMAIN ret.frame : ret.frame[m] = Normalize(good[m]).details
                  /\ ret.error = "None"
        /\ resp.kind = "raise" => ret.frame = <<>> /\ ret.error = "Error"

\* 2n hits, the first does not normalize, more than n of the others do
C15_Witness ==
    /\ pc = "returned"
    /\ ret.fn = "get_mood_based_recommendations"
    /\ arg.mood = "workout"
    /\ arg.n = 2
    /\ resp.kind = "ok"
    /\ Len(resp.tracks) = 4
    /\ ~WellFormed(resp.tracks[1])
    /\ Len(SelectSeq(resp.tracks, WellFormed)) = 3
    /\ Len(ret.frame) = 2
    /\ ret.frame[1].id = Entry(resp.tracks[2]).id

(***************************************************************************)
(* Failures of the entry points (specifications SpecEngine and Spec).      *)
(***************************************************************************)
\* C16: no call of a recommendation entry point ends in an exception that
\* leaves it, whatever the catalog, the records, the dates and the
\* similarity computation do: the call returns.
C16_NoExceptionEscapes ==
    pc = "returned" => "raised" \in DOMAIN ret /\ ret.raised = FALSE

\* What holds of the code: recommend lets an exception out exactly when its
\* filter raises, or when rows are left to rank and the frame has no feature
\* column, so that calculate_similarity fails and adds no similarity.
C16_RecommendRaisesExactlyWhen ==
    pc = "returned" =>
        LET filtered == IF Truthy(arg.f)
                        THEN UtilsApplyFilters(arg.pool, arg.has_columns,
                                               Get(arg.f, "popularity_range", <<>>),
                                               Get(arg.f, "year_range", <<>>))
                        ELSE [raised |-> FALSE, rows |-> arg.pool]
        IN  ret.raised <=>
                \/ filtered.raised
                \/ filtered.rows # <<>> /\ "energy" \notin DOMAIN filtered.rows[1]

\* recommend_songs always ends with rows and no reason, or with no row and a
\* reason.
C16_AppResultOrReason ==
    pc = "done" =>
        \/ error = "None" /\ result # <<>>
        \/ /\ error \in NoCandidatesFound \cup {"No songs match the filters"}
           /\ result = <<>>

(***************************************************************************)
(* The fitting set of the scaler (specification SpecRank).                 *)
(***************************************************************************)
FeatureVector(row) == [k \in {FeatureCols[c] : c \in DOMAIN FeatureCols} |-> row[k]]

\* the cosine of seed_row and row when mean and standard deviation are those
\* of the rows `fitted`
CosineFittedOn(fitted, seed_row, row) ==
    LET fit == Fit(fitted)
    IN  Cosine(fit, seed_row, row, ActiveCols(fit, fitted \o <<seed_row, row>>))

\* num / sqrt(self * seed) is the same number for s and t
SameCosine(s, t) ==
    /\ Sign(s) = Sign(t)
    /\ Sign(s) # 0 => s.num * s.num * t.self * t.seed = t.num * t.num * s.self * s.seed

CandidateVectors(call) == [n \in DOMAIN call.pool |-> FeatureVector(call.pool[n])]

\* C17: the similarity of every returned row is the cosine of the seed row and
\* the row after both are scaled with the mean and the standard deviation of
\* the seed row and all candidate rows together.
C17_JointStandardization ==
    (pc = "returned" /\ ~ret.raised) =>
        \A m \in DOMAIN ret.rows :
            SameCosine(ret.rows[m].similarity,
                       CosineFittedOn(<<FeatureVector(arg.seed)>> \o CandidateVectors(arg),
                                      FeatureVector(arg.seed),
                                      FeatureVector(arg.pool[ret.rows[m].index])))

\* What holds of the code: recommend scales so, and recommend_songs scales
\* with the mean and the standard deviation of the candidate rows alone.
C17_EngineFitsJointly ==
    (pc = "returned" /\ ret.fn = "recommend" /\ ~ret.raised) =>
        \A m \in DOMAIN ret.rows :
            SameCosine(ret.rows[m].similarity,
                       CosineFittedOn(<<FeatureVector(arg.seed)>> \o CandidateVectors(arg),
                                      FeatureVector(arg.seed),
                                      FeatureVector(arg.pool[ret.rows[m].index])))

C17_AppFitsOnCandidates ==
    (pc = "returned" /\ ret.fn = "recommend_songs") =>
        \A m \in DOMAIN ret.rows :
            SameCosine(ret.rows[m].similarity,
                       CosineFittedOn(CandidateVectors(arg),
                                      FeatureVector(arg.seed),
                                      FeatureVector(arg.pool[ret.rows[m].index])))

(***************************************************************************)
(* The related-artist strategy (specification Spec).                       *)
(***************************************************************************)
\* the fetch of the top tracks of the k-th related artist is made and raises:
\* the fetches before it returned, with fewer rows than the cap between them
FetchRaisedAt(artists, k) ==
    /\ k \in 1..Min(Len(artists), RelatedArtists)
    /\ artists[k].kind = "raise"
    /\ \A j \in 1..(k - 1) : artists[j].kind = "ok"
    /\ Len(SelectSeq(ArtistItems(SubSeq(artists, 1, k - 1)), WellFormed)) < RelatedLimit

\* C18: when the fetch of the top tracks of a related artist raises, the
\* related-artist strategy returns no row at all, the rows of the artists
\* before it included, and no row of the strategy is in the pool or in the
\* result.
C18_RelatedAllOrNothing ==
    /\ (pc = "search" /\ resp.kind = "ok"
           /\ \E k \in DOMAIN resp.artists : FetchRaisedAt(resp.artists, k)) =>
          /\ related_tracks = <<>>
          /\ "related" \in failed
          /\ \A i \in DOMAIN all_tracks : \A n \in DOMAIN all_tracks[i] :
                all_tracks[i][n].via # "related"
    /\ "related" \in failed =>
          /\ \A n \in DOMAIN df : df[n].via # "related"
          /\ \A n \in DOMAIN result : result[n].via # "related"

\* the first related artist has a track that normalizes and is not the
\* seed's, the fetch for the second raises
C18_Witness ==
    /\ pc = "search"
    /\ resp.kind = "ok"
    /\ Len(resp.artists) = 2
    /\ FetchRaisedAt(resp.artists, 2)
    /\ \E n \in DOMAIN resp.artists[1].tracks :
          /\ WellFormed(resp.artists[1].tracks[n])
          /\ Entry(resp.artists[1].tracks[n]).id # seed.id
    /\ related_tracks = <<>>

====
